---- MODULE Spec2Model ----
(***************************************************************************)
(* The shortcuts.vdf codec of steam_shortcuts_util: the writer             *)
(* (shortcuts_writer.rs) and the nom parser (shortcuts_parser.rs), as pure *)
(* operators over byte sequences, driven by a small state machine that     *)
(* encodes records, hand-builds and edits streams, and decodes them; and   *)
(* the app id (app_id_generator.rs) and the constructor (shortcut.rs).     *)
(*                                                                         *)
(* A byte is a number 0..255 and a byte string a sequence of bytes.  TLC's *)
(* integers are 32-bit signed, so a u32 is kept as its two 16-bit halves   *)
(* [hi, lo]; the conversions to and from the four little-endian bytes are  *)
(* computed, not assumed.                                                  *)
(***************************************************************************)
EXTENDS Integers, Sequences, FiniteSets, TLC

VARIABLES
    shortcuts,        \* the Vec<Shortcut> handed to the writer / the records a stream is built from
    stream,           \* the line structure of a hand-built stream (<<>> when the buffer was written)
    shortcuts_bytes,  \* the byte buffer handed to parse_shortcuts
    original,         \* the buffer the current one was derived from
    expected,         \* parse_shortcuts' result on the buffer the current one is compared with
    parsed,           \* parse_shortcuts' result on shortcuts_bytes (NotRun before the call)
    op,               \* the operation that produced shortcuts_bytes
    call              \* the last call of calculate_app_id or Shortcut::new, with its arguments and result

vars == <<shortcuts, stream, shortcuts_bytes, original, expected, parsed, op, call>>

---------------------------------------------------------------------------
(* Bounds of the model. *)

\* the longest record list handed to the writer or built into a stream
MaxShortcuts == 2

\* the longest text handed to calculate_app_id and Shortcut::new
MaxText == 2

\* the length of a long record list, whose last positions have two digits
ManyShortcuts == 11

---------------------------------------------------------------------------
(* The delimiter bytes (ascii::AsciiChar) and the key strings. *)

NUL == 0
SOH == 1
SOX == 2
BS == 8

K_shortcuts == <<115, 104, 111, 114, 116, 99, 117, 116, 115>>
K_tags == <<116, 97, 103, 115>>
K_appid == <<97, 112, 112, 105, 100>>
K_AppName == <<65, 112, 112, 78, 97, 109, 101>>
K_Exe == <<69, 120, 101>>
K_StartDir == <<83, 116, 97, 114, 116, 68, 105, 114>>
K_icon == <<105, 99, 111, 110>>
K_ShortcutPath == <<83, 104, 111, 114, 116, 99, 117, 116, 80, 97, 116, 104>>
K_LaunchOptions == <<76, 97, 117, 110, 99, 104, 79, 112, 116, 105, 111, 110, 115>>
K_IsHidden == <<73, 115, 72, 105, 100, 100, 101, 110>>
K_AllowDesktopConfig == <<65, 108, 108, 111, 119, 68, 101, 115, 107, 116, 111, 112, 67, 111, 110, 102, 105, 103>>
K_AllowOverlay == <<65, 108, 108, 111, 119, 79, 118, 101, 114, 108, 97, 121>>
K_openvr == <<111, 112, 101, 110, 118, 114>>
K_Devkit == <<68, 101, 118, 107, 105, 116>>
K_DevkitGameID == <<68, 101, 118, 107, 105, 116, 71, 97, 109, 101, 73, 68>>
K_DevkitOverrideAppID == <<68, 101, 118, 107, 105, 116, 79, 118, 101, 114, 114, 105, 100, 101, 65, 112, 112, 73, 68>>
K_LastPlayTime == <<76, 97, 115, 116, 80, 108, 97, 121, 84, 105, 109, 101>>

---------------------------------------------------------------------------
(* Numbers and their byte forms. *)

\* the element of a one-element set: { e(x) : x \in {v} } computes v once
The(S) == CHOOSE z \in S : TRUE

\* a u32 as its high and low 16-bit halves
U32(hi, lo) == [hi |-> hi, lo |-> lo]

\* u32::to_le_bytes
to_le_bytes(v) == <<v.lo % 256, v.lo \div 256, v.hi % 256, v.hi \div 256>>

\* u32::from_le_bytes
from_le_bytes(b) == U32(b[3] + 256 * b[4], b[1] + 256 * b[2])

\* `val != 0` on a u32
NonZero(v) == v.hi # 0 \/ v.lo # 0

\* `flag as u32`
bool_as_u32(flag) == U32(0, IF flag THEN 1 ELSE 0)

\* `flag as u8`
bool_as_u8(flag) == IF flag THEN 1 ELSE 0

\* format!("{}", n) of a usize, as ASCII bytes
RECURSIVE format_usize(_)
format_usize(n) ==
    IF n < 10 THEN <<48 + n>>
    ELSE Append(format_usize(n \div 10), 48 + (n % 10))

\* the concatenation of a sequence of byte strings (flat_map(..).collect())
RECURSIVE FlattenFrom(_, _)
FlattenFrom(ss, n) == IF n > Len(ss) THEN <<>> ELSE ss[n] \o FlattenFrom(ss, n + 1)

Flatten(ss) == The({ FlattenFrom(v, 1) : v \in {ss} })

---------------------------------------------------------------------------
(* app_id_generator.rs *)

\* the exclusive or of two n-bit numbers
RECURSIVE xor_bits(_, _, _)
xor_bits(a, b, n) ==
    IF n = 0 THEN 0
    ELSE ((a + b) % 2) + 2 * xor_bits(a \div 2, b \div 2, n - 1)

xor_u32(v, w) == U32(xor_bits(v.hi, w.hi, 16), xor_bits(v.lo, w.lo, 16))

\* v >> 1
shr1(v) == U32(v.hi \div 2, (v.lo \div 2) + 32768 * (v.hi % 2))

\* the reflected CRC-32 polynomial 0xEDB88320
crc_poly == U32(60856, 33568)

\* n shift-and-reduce steps of the CRC register
RECURSIVE crc_bits(_, _)
crc_bits(crc, n) ==
    IF n = 0 THEN crc
    ELSE The({ crc_bits(c, n - 1)
               : c \in {IF crc.lo % 2 = 1 THEN xor_u32(shr1(crc), crc_poly) ELSE shr1(crc)} })

\* Hasher::update: the register after the bytes from the n-th on
RECURSIVE crc_update(_, _, _)
crc_update(crc, bytes, n) ==
    IF n > Len(bytes) THEN crc
    ELSE The({ crc_update(c, bytes, n + 1)
               : c \in {crc_bits(xor_u32(crc, U32(0, bytes[n])), 8)} })

\* crc32fast: Hasher::new(), update(bytes), finalize() - the CRC-32 of zlib
crc32(bytes) == xor_u32(crc_update(U32(65535, 65535), bytes, 1), U32(65535, 65535))

\* a calculate_app_id that returns the bare checksum
calculate_app_id_bare_checksum(exe, app_name) == crc32(exe \o app_name)

\* format!("{}{}", exe, app_name), the checksum of its bytes, `checksum | 0x80000000`
calculate_app_id(exe, app_name) ==
    The({ U32(IF checksum.hi >= 32768 THEN checksum.hi ELSE checksum.hi + 32768, checksum.lo)
          : checksum \in {crc32(exe \o app_name)} })

---------------------------------------------------------------------------
(* shortcut.rs *)

\* "Installed" and "Ready To Play"
DefaultTags ==
    <<<<73, 110, 115, 116, 97, 108, 108, 101, 100>>,
      <<82, 101, 97, 100, 121, 32, 84, 111, 32, 80, 108, 97, 121>>>>

\* a constructor that hands the app id its arguments in the constructor's own order
Shortcut_new_name_first(order, app_name, exe, start_dir, icon, shortcut_path, launch_options) ==
    [order |-> order, app_id |-> calculate_app_id(app_name, exe), app_name |-> app_name,
     exe |-> exe, start_dir |-> start_dir, icon |-> icon, shortcut_path |-> shortcut_path,
     launch_options |-> launch_options, is_hidden |-> FALSE, allow_desktop_config |-> TRUE,
     allow_overlay |-> TRUE, open_vr |-> U32(0, 0), dev_kit |-> U32(0, 0),
     dev_kit_game_id |-> <<>>, last_play_time |-> U32(0, 0),
     dev_kit_overrite_app_id |-> U32(0, 0), tags |-> DefaultTags]

\* Shortcut::new
Shortcut_new(order, app_name, exe, start_dir, icon, shortcut_path, launch_options) ==
    [order |-> order,
     app_id |-> calculate_app_id(exe, app_name),
     app_name |-> app_name,
     exe |-> exe,
     start_dir |-> start_dir,
     icon |-> icon,
     shortcut_path |-> shortcut_path,
     launch_options |-> launch_options,
     is_hidden |-> FALSE,
     allow_desktop_config |-> TRUE,
     allow_overlay |-> TRUE,
     open_vr |-> U32(0, 0),
     dev_kit |-> U32(0, 0),
     dev_kit_game_id |-> <<>>,
     last_play_time |-> U32(0, 0),
     dev_kit_overrite_app_id |-> U32(0, 0),
     tags |-> DefaultTags]

---------------------------------------------------------------------------
(* shortcuts_writer.rs *)

soh_to_bytes(name, input) == <<SOH>> \o name \o <<NUL>> \o input \o <<NUL>>

stx_single_to_bytes(name, input) ==
    <<SOX>> \o name \o <<NUL, SOH, NUL, NUL, bool_as_u8(input)>>

stx_to_bytes(name, input) == <<SOX>> \o name \o <<NUL>> \o to_le_bytes(input)

tag_to_bytes(index, tag_text) ==
    <<SOH>> \o format_usize(index) \o <<NUL>> \o tag_text \o <<NUL>>

\* enumerate() counts from 0; sequences here are indexed from 1
tags_to_bytes(input) ==
    Flatten([i \in 1..Len(input) |-> tag_to_bytes(i - 1, input[i])])

shortcut_to_bytes(order, shortcut) ==
    <<NUL>> \o format_usize(order) \o <<NUL>>
    \o stx_to_bytes(K_appid, shortcut.app_id)
    \o soh_to_bytes(K_AppName, shortcut.app_name)
    \o soh_to_bytes(K_Exe, shortcut.exe)
    \o soh_to_bytes(K_StartDir, shortcut.start_dir)
    \o soh_to_bytes(K_icon, shortcut.icon)
    \o soh_to_bytes(K_ShortcutPath, shortcut.shortcut_path)
    \o soh_to_bytes(K_LaunchOptions, shortcut.launch_options)
    \o stx_to_bytes(K_IsHidden, bool_as_u32(shortcut.is_hidden))
    \o stx_single_to_bytes(K_AllowDesktopConfig, shortcut.allow_desktop_config)
    \o stx_single_to_bytes(K_AllowOverlay, shortcut.allow_overlay)
    \o stx_to_bytes(K_openvr, shortcut.open_vr)
    \o stx_to_bytes(K_Devkit, shortcut.dev_kit)
    \o soh_to_bytes(K_DevkitGameID, shortcut.dev_kit_game_id)
    \o stx_to_bytes(K_DevkitOverrideAppID, shortcut.dev_kit_overrite_app_id)
    \o stx_to_bytes(K_LastPlayTime, shortcut.last_play_time)
    \o <<NUL>> \o K_tags \o <<NUL>>
    \o tags_to_bytes(shortcut.tags)
    \o <<BS, BS>>

\* a writer that numbers each record by its own order field
shortcuts_to_bytes_stored_order(shortcut) ==
    <<NUL>> \o K_shortcuts \o <<NUL>>
    \o Flatten([index \in 1..Len(shortcut) |->
                   shortcut_to_bytes(shortcut[index].order, shortcut[index])])
    \o <<BS, BS>>

shortcuts_to_bytes(shortcut) ==
    <<NUL>> \o K_shortcuts \o <<NUL>>
    \o Flatten([i \in 1..Len(shortcut) |-> shortcut_to_bytes(i - 1, shortcut[i])])
    \o <<BS, BS>>

---------------------------------------------------------------------------
(* The outcome of a parser call: Ok with the remaining input and a value,  *)
(* Err (nom::Err::Error, which `?` returns at once), or Panic (an          *)
(* `unwrap()` on an Err, which unwinds through every caller).              *)

Ok(rest, val) == [k |-> "Ok", rest |-> rest, val |-> val]
Err == [k |-> "Err", rest |-> <<>>, val |-> <<>>]
Panic == [k |-> "Panic", rest |-> <<>>, val |-> <<>>]
NotRun == [k |-> "NotRun", rest |-> <<>>, val |-> <<>>]

\* an outcome that is not Ok, as `?` returns it to the caller
Fail(r) == [k |-> r.k, rest |-> <<>>, val |-> <<>>]

\* the input from position n on
DropFirst(i, n) == SubSeq(i, n + 1, Len(i))

\* nom::bytes::complete::tag
tag(t, i) ==
    IF Len(i) >= Len(t) /\ SubSeq(i, 1, Len(t)) = t
    THEN Ok(DropFirst(i, Len(t)), t)
    ELSE Err

\* nom::bytes::complete::take
take(n, i) == IF Len(i) >= n THEN Ok(DropFirst(i, n), SubSeq(i, 1, n)) ELSE Err

\* the length of the longest prefix of i without the byte c
RECURSIVE PrefixWithout(_, _, _)
PrefixWithout(c, i, n) ==
    IF n < Len(i) /\ i[n + 1] # c THEN PrefixWithout(c, i, n + 1) ELSE n

\* nom::bytes::complete::take_till(|b| b == c): never fails, may take nothing or everything
take_till(c, i) ==
    LET n == PrefixWithout(c, i, 0) IN Ok(DropFirst(i, n), SubSeq(i, 1, n))

\* the steps of a sequence of nom parsers
Tag(t) == [p |-> "tag", a |-> t]
Take(n) == [p |-> "take", a |-> n]
TakeTill(c) == [p |-> "take_till", a |-> c]

\* one step on the input i
step(st, i) ==
    CASE st.p = "tag" -> tag(st.a, i)
      [] st.p = "take" -> take(st.a, i)
      [] st.p = "take_till" -> take_till(st.a, i)

\* nom::sequence::tuple((p1, .., pn)), and as well a run of
\* `let (i, x) = p(i)?;` lines: each parser on what the one before left, the
\* first Err returned at once; Ok carries the values in order
RECURSIVE tuple_from(_, _, _, _)
tuple_from(steps, n, i, vals) ==
    IF n > Len(steps) THEN Ok(i, vals)
    ELSE The({ IF r.k # "Ok" THEN Err
               ELSE tuple_from(steps, n + 1, r.rest, Append(vals, r.val))
               : r \in {step(steps[n], i)} })

tuple(steps, i) == tuple_from(steps, 1, i, <<>>)

\* a UTF-8 continuation byte
IsCont(b) == 128 <= b /\ b <= 191

\* std::str::from_utf8(..).is_ok(): well-formed UTF-8 (no overlong forms, no surrogates, at most U+10FFFF)
RECURSIVE is_utf8(_, _)
is_utf8(s, n) ==
    LET left == Len(s) - n
        b0 == s[n + 1]
        b1 == s[n + 2]
        b2 == s[n + 3]
        b3 == s[n + 4]
    IN  IF left = 0 THEN TRUE
        ELSE IF b0 < 128 THEN is_utf8(s, n + 1)
        ELSE IF 194 <= b0 /\ b0 <= 223
             THEN left >= 2 /\ IsCont(b1) /\ is_utf8(s, n + 2)
        ELSE IF 224 <= b0 /\ b0 <= 239
             THEN /\ left >= 3
                  /\ IF b0 = 224 THEN 160 <= b1 /\ b1 <= 191
                     ELSE IF b0 = 237 THEN 128 <= b1 /\ b1 <= 159
                     ELSE IsCont(b1)
                  /\ IsCont(b2)
                  /\ is_utf8(s, n + 3)
        ELSE IF 240 <= b0 /\ b0 <= 244
             THEN /\ left >= 4
                  /\ IF b0 = 240 THEN 144 <= b1 /\ b1 <= 191
                     ELSE IF b0 = 244 THEN 128 <= b1 /\ b1 <= 143
                     ELSE IsCont(b1)
                  /\ IsCont(b2)
                  /\ IsCont(b3)
                  /\ is_utf8(s, n + 4)
        ELSE FALSE

\* an ASCII decimal digit
IsDigit(b) == 48 <= b /\ b <= 57

\* the digits of a usize literal: str::parse::<usize> allows one leading '+'
usize_digits(s) == IF s # <<>> /\ s[1] = 43 THEN Tail(s) ELSE s

\* str::parse::<usize>(..).is_ok(), for the literals of the model (none overflows 64 bits)
is_usize(s) ==
    LET d == usize_digits(s) IN d # <<>> /\ \A j \in 1..Len(d) : IsDigit(d[j])

\* the value of a digit string
RECURSIVE digits_value(_, _)
digits_value(d, n) ==
    IF n = 0 THEN 0 ELSE 10 * digits_value(d, n - 1) + (d[n] - 48)

\* str::parse::<usize>(..).unwrap() where is_usize holds
parse_usize(s) == LET d == usize_digits(s) IN digits_value(d, Len(d))

---------------------------------------------------------------------------
(* shortcuts_parser.rs *)

get_order(i) ==
    The({ IF r.k # "Ok" THEN Err
          ELSE IF ~is_utf8(r.val[2], 0) THEN Panic
          ELSE IF ~is_usize(r.val[2]) THEN Panic
          ELSE Ok(r.rest, parse_usize(r.val[2]))
          : r \in {tuple(<<Tag(<<NUL>>), TakeTill(NUL), Tag(<<NUL>>)>>, i)} })

stx_4_line_parser(key, i) ==
    The({ IF r.k # "Ok" THEN Err
          ELSE Ok(r.rest, from_le_bytes(r.val[4]))
          : r \in {tuple(<<Tag(<<SOX>>), Tag(key), Tag(<<NUL>>), Take(4)>>, i)} })

\* a packed-form reader that zero-extends: the three bytes are the low bytes
stx_single_line_parser_zero_extended(key, i) ==
    The({ IF r.k # "Ok" THEN Err
          ELSE Ok(r.rest, from_le_bytes(<<r.val[5][1], r.val[5][2], r.val[5][3], 0>>))
          : r \in {tuple(<<Tag(<<SOX>>), Tag(key), Tag(<<NUL>>), Tag(<<SOH>>), Take(3)>>, i)} })

stx_single_line_parser(key, i) ==
    The({ IF r.k # "Ok" THEN Err
          ELSE Ok(r.rest, from_le_bytes(<<0, r.val[5][1], r.val[5][2], r.val[5][3]>>))
          : r \in {tuple(<<Tag(<<SOX>>), Tag(key), Tag(<<NUL>>), Tag(<<SOH>>), Take(3)>>, i)} })

\* alt((stx_single_line_parser(key), stx_4_line_parser(key))): the first that succeeds
stx_line_parser(key, i) ==
    The({ IF first.k = "Ok" THEN first ELSE stx_4_line_parser(key, i)
          : first \in {stx_single_line_parser(key, i)} })

\* `.map(|(u, val)| (u, val != 0))` on a numeric line's result
map_nonzero(r) ==
    The({ IF x.k = "Ok" THEN Ok(x.rest, NonZero(x.val)) ELSE x : x \in {r} })

soh_line_parser(key, i) ==
    The({ IF r.k # "Ok" THEN Err
          ELSE IF ~is_utf8(r.val[4], 0) THEN Panic
          ELSE Ok(r.rest, r.val[4])
          : r \in {tuple(<<Tag(<<SOH>>), Tag(key), Tag(<<NUL>>), TakeTill(NUL), Tag(<<NUL>>)>>, i)} })

get_app_id(i) == stx_line_parser(K_appid, i)
get_is_hidden(i) == map_nonzero(stx_line_parser(K_IsHidden, i))
get_allow_desktop_config(i) == map_nonzero(stx_line_parser(K_AllowDesktopConfig, i))
get_allow_overlay(i) == map_nonzero(stx_line_parser(K_AllowOverlay, i))
get_open_vr(i) == stx_line_parser(K_openvr, i)
get_dev_kit(i) == stx_line_parser(K_Devkit, i)
get_last_time_played(i) == stx_line_parser(K_LastPlayTime, i)
get_devkit_game_id(i) == soh_line_parser(K_DevkitGameID, i)
get_app_name(i) == soh_line_parser(K_AppName, i)
get_exe(i) == soh_line_parser(K_Exe, i)
get_start_dir(i) == soh_line_parser(K_StartDir, i)
get_icon(i) == soh_line_parser(K_icon, i)
get_shortcut_path(i) == soh_line_parser(K_ShortcutPath, i)
get_launch_options(i) == soh_line_parser(K_LaunchOptions, i)

take_tag(i) ==
    The({ IF r.k # "Ok" THEN Err
          ELSE IF ~is_utf8(r.val[4], 0) THEN Panic
          ELSE Ok(r.rest, r.val[4])
          : r \in {tuple(<<Tag(<<SOH>>), TakeTill(NUL), Tag(<<NUL>>), TakeTill(NUL), Tag(<<NUL>>)>>, i)} })

\* nom::multi::many0(take_tag): collect until take_tag returns Err, which ends the list
\* without failing; a parser that succeeds without consuming is an error
RECURSIVE many0_take_tag(_, _)
many0_take_tag(i, acc) ==
    The({ IF r.k = "Panic" THEN Panic
          ELSE IF r.k = "Err" THEN Ok(i, acc)
          ELSE IF Len(r.rest) = Len(i) THEN Err
          ELSE many0_take_tag(r.rest, Append(acc, r.val))
          : r \in {take_tag(i)} })

\* the tags are parsed from the bytes before the first BACKSPACE, and what
\* many0 leaves of them is dropped
get_tags(i) ==
    The({ IF r.k # "Ok" THEN Err
          ELSE The({ IF tags.k # "Ok" THEN Fail(tags) ELSE Ok(r.rest, tags.val)
                     : tags \in {many0_take_tag(r.val[4], <<>>)} })
          : r \in {tuple(<<Tag(<<NUL>>), Tag(K_tags), Tag(<<NUL>>), TakeTill(BS), Tag(<<BS>>)>>, i)} })

\* the fields get_shortcut reads, in the order of its `let (i, x) = get_x(i)?;` lines
ShortcutFields ==
    <<"order", "app_id", "app_name", "exe", "start_dir", "icon", "shortcut_path",
      "launch_options", "is_hidden", "allow_desktop_config", "allow_overlay", "open_vr",
      "dev_kit", "dev_kit_game_id", "last_play_time", "tags">>

\* the parser get_shortcut calls for a field
get_field(name, i) ==
    CASE name = "order" -> get_order(i)
      [] name = "app_id" -> get_app_id(i)
      [] name = "app_name" -> get_app_name(i)
      [] name = "exe" -> get_exe(i)
      [] name = "start_dir" -> get_start_dir(i)
      [] name = "icon" -> get_icon(i)
      [] name = "shortcut_path" -> get_shortcut_path(i)
      [] name = "launch_options" -> get_launch_options(i)
      [] name = "is_hidden" -> get_is_hidden(i)
      [] name = "allow_desktop_config" -> get_allow_desktop_config(i)
      [] name = "allow_overlay" -> get_allow_overlay(i)
      [] name = "open_vr" -> get_open_vr(i)
      [] name = "dev_kit" -> get_dev_kit(i)
      [] name = "dev_kit_game_id" -> get_devkit_game_id(i)
      [] name = "last_play_time" -> get_last_time_played(i)
      [] name = "tags" -> get_tags(i)

\* get_shortcut from its n-th field on, with the fields read so far in acc
RECURSIVE get_shortcut_from(_, _, _)
get_shortcut_from(n, i, acc) ==
    IF n > Len(ShortcutFields)
    THEN The({ IF r.k # "Ok" THEN Err ELSE Ok(r.rest, acc) : r \in {tag(<<BS>>, i)} })
    ELSE The({ IF r.k # "Ok" THEN Fail(r)
               ELSE get_shortcut_from(n + 1, r.rest, acc @@ (ShortcutFields[n] :> r.val))
               : r \in {get_field(ShortcutFields[n], i)} })

\* The struct literal of get_shortcut names sixteen fields: it reads no
\* DevkitOverrideAppID line and gives dev_kit_overrite_app_id no value.
get_shortcut(i) == get_shortcut_from(1, i, <<>>)

\* nom::multi::many0(get_shortcut)
RECURSIVE many0_get_shortcut(_, _)
many0_get_shortcut(i, acc) ==
    The({ IF r.k = "Panic" THEN Panic
          ELSE IF r.k = "Err" THEN Ok(i, acc)
          ELSE IF Len(r.rest) = Len(i) THEN Err
          ELSE many0_get_shortcut(r.rest, Append(acc, r.val))
          : r \in {get_shortcut(i)} })

shotcut_content(i) ==
    The({ IF r.k # "Ok" THEN Err ELSE Ok(r.rest, <<>>)
          : r \in {tuple(<<Tag(<<NUL>>), Tag(K_shortcuts), Tag(<<NUL>>)>>, i)} })

\* a parser that wants its whole input consumed
parse_shortcuts_inner_all_consuming(shortcuts_bytes_in) ==
    The({ IF a.k # "Ok" THEN Err
          ELSE The({ IF list.k # "Ok" THEN Fail(list)
                     ELSE The({ IF c.k # "Ok" \/ c.rest # <<>> THEN Err ELSE Ok(c.rest, list.val)
                                : c \in {tag(<<BS>>, list.rest)} })
                     : list \in {many0_get_shortcut(a.rest, <<>>)} })
          : a \in {shotcut_content(shortcuts_bytes_in)} })

parse_shortcuts_inner(shortcuts_bytes_in) ==
    The({ IF a.k # "Ok" THEN Err
          ELSE The({ IF list.k # "Ok" THEN Fail(list)
                     ELSE The({ IF c.k # "Ok" THEN Err ELSE Ok(c.rest, list.val)
                                : c \in {tag(<<BS>>, list.rest)} })
                     : list \in {many0_get_shortcut(a.rest, <<>>)} })
          : a \in {shotcut_content(shortcuts_bytes_in)} })

\* Ok(shortcuts) without the remaining input, or Err(format!("{}", err))
parse_shortcuts(shortcuts_bytes_in) ==
    The({ IF r.k = "Ok" THEN Ok(<<>>, r.val) ELSE Fail(r)
          : r \in {parse_shortcuts_inner(shortcuts_bytes_in)} })

---------------------------------------------------------------------------
(* The inputs: records, and streams built by hand from them. *)

\* a record with ordinary values
Base ==
    [order |-> 0,
     app_id |-> U32(36088, 3981),
     app_name |-> <<71>>,
     exe |-> <<101>>,
     start_dir |-> <<>>,
     icon |-> <<>>,
     shortcut_path |-> <<>>,
     launch_options |-> <<>>,
     is_hidden |-> FALSE,
     allow_desktop_config |-> TRUE,
     allow_overlay |-> TRUE,
     open_vr |-> U32(0, 0),
     dev_kit |-> U32(0, 0),
     dev_kit_game_id |-> <<>>,
     dev_kit_overrite_app_id |-> U32(0, 0),
     last_play_time |-> U32(24855, 16420),
     tags |-> <<<<73>>>>]

\* Base and the records that differ from it in one field: numbers with a low
\* byte of 0x01 and with every bit set, texts that are empty, non-ASCII or hold
\* a BACKSPACE, each boolean flipped, tag lists of length 0, 1 and 2
Samples ==
    { Base,
      [Base EXCEPT !.order = 5],
      [Base EXCEPT !.app_id = U32(0, 1)],
      [Base EXCEPT !.app_id = U32(65535, 65535)],
      [Base EXCEPT !.app_name = <<>>],
      [Base EXCEPT !.exe = <<195, 169>>],
      [Base EXCEPT !.launch_options = <<45, 8>>],
      [Base EXCEPT !.is_hidden = TRUE],
      [Base EXCEPT !.allow_desktop_config = FALSE],
      [Base EXCEPT !.allow_overlay = FALSE],
      [Base EXCEPT !.open_vr = U32(0, 257)],
      [Base EXCEPT !.dev_kit = U32(1, 0)],
      [Base EXCEPT !.dev_kit_game_id = <<100>>],
      [Base EXCEPT !.dev_kit_overrite_app_id = U32(0, 7)],
      [Base EXCEPT !.last_play_time = U32(0, 0)],
      [Base EXCEPT !.tags = <<>>],
      [Base EXCEPT !.tags = <<<<97>>, <<98>>>>],
      [Base EXCEPT !.tags = <<<<8, 8, 8>>>>] }

\* the record lists: the empty one, and for each length up to MaxShortcuts
\* the lists that hold one sample among copies of Base
ShortcutLists ==
    {<<>>} \cup
    UNION { { [i \in 1..n |-> IF i = p THEN s ELSE Base] : p \in 1..n, s \in Samples }
            : n \in 1..MaxShortcuts }

\* the records whose numeric lines are rewritten in a packed form
FormSamples ==
    { Base,
      [Base EXCEPT !.app_id = U32(0, 1)],
      [Base EXCEPT !.is_hidden = TRUE],
      [Base EXCEPT !.tags = <<<<8, 8, 8>>>>] }

FormLists ==
    UNION { { [i \in 1..n |-> IF i = p THEN s ELSE Base] : p \in 1..n, s \in FormSamples }
            : n \in 1..MaxShortcuts }

\* the values re-encoding may find in dev_kit_overrite_app_id, which get_shortcut leaves unset
OverrideValues == {U32(0, 0), U32(0, 7)}

\* the keys of the field lines get_shortcut reads, in the order it reads them
LineKeys ==
    <<K_appid, K_AppName, K_Exe, K_StartDir, K_icon, K_ShortcutPath, K_LaunchOptions,
      K_IsHidden, K_AllowDesktopConfig, K_AllowOverlay, K_openvr, K_Devkit,
      K_DevkitGameID, K_LastPlayTime>>

NumericLines == {1, 8, 9, 10, 11, 12, 14}
TextLines == {2, 3, 4, 5, 6, 7, 13}

\* the field lines of a record as get_shortcut reads them: the writer's lines
\* without DevkitOverrideAppID; `packed` writes AllowDesktopConfig and
\* AllowOverlay as the writer does, otherwise every number is in long form
decoder_lines(s, packed) ==
    <<stx_to_bytes(K_appid, s.app_id),
      soh_to_bytes(K_AppName, s.app_name),
      soh_to_bytes(K_Exe, s.exe),
      soh_to_bytes(K_StartDir, s.start_dir),
      soh_to_bytes(K_icon, s.icon),
      soh_to_bytes(K_ShortcutPath, s.shortcut_path),
      soh_to_bytes(K_LaunchOptions, s.launch_options),
      stx_to_bytes(K_IsHidden, bool_as_u32(s.is_hidden)),
      IF packed THEN stx_single_to_bytes(K_AllowDesktopConfig, s.allow_desktop_config)
      ELSE stx_to_bytes(K_AllowDesktopConfig, bool_as_u32(s.allow_desktop_config)),
      IF packed THEN stx_single_to_bytes(K_AllowOverlay, s.allow_overlay)
      ELSE stx_to_bytes(K_AllowOverlay, bool_as_u32(s.allow_overlay)),
      stx_to_bytes(K_openvr, s.open_vr),
      stx_to_bytes(K_Devkit, s.dev_kit),
      soh_to_bytes(K_DevkitGameID, s.dev_kit_game_id),
      stx_to_bytes(K_LastPlayTime, s.last_play_time)>>

\* the line structure of a stream that holds the records in `list`: each
\* record's own order as its order marker, its tags numbered by position
build_stream(list, packed) ==
    [r \in 1..Len(list) |->
        [order |-> format_usize(list[r].order),
         lines |-> decoder_lines(list[r], packed),
         tags |-> [t \in 1..Len(list[r].tags) |->
                      [index |-> format_usize(t - 1), text |-> list[r].tags[t]]]]]

\* one record block: order marker, field lines, tags block, terminator
block_bytes(b) ==
    <<NUL>> \o b.order \o <<NUL>>
    \o Flatten(b.lines)
    \o <<NUL>> \o K_tags \o <<NUL>>
    \o Flatten([t \in 1..Len(b.tags) |->
                   <<SOH>> \o b.tags[t].index \o <<NUL>> \o b.tags[t].text \o <<NUL>>])
    \o <<BS, BS>>

\* the bytes of a stream, framed as the writer frames its output
assemble(st) ==
    <<NUL>> \o K_shortcuts \o <<NUL>>
    \o Flatten([r \in 1..Len(st) |-> block_bytes(st[r])])
    \o <<BS, BS>>

\* a decoded record with the field get_shortcut leaves unset given the value v
with_override(s, v) == s @@ [dev_kit_overrite_app_id |-> v]

---------------------------------------------------------------------------
(* Edits of a hand-built stream. *)

\* a key get_shortcut does not know
K_unknown == <<88, 121>>

\* the field line injected under the unknown key: a text line or a numeric line
UnknownLines == {soh_to_bytes(K_unknown, <<120>>), stx_to_bytes(K_unknown, U32(0, 7))}

\* order markers that are no decimal number: a letter, nothing, an invalid UTF-8 byte
BadOrders == {<<97>>, <<>>, <<255>>}

\* a text value that is not UTF-8: a lone continuation byte, a truncated two-byte form
BadTexts == {<<128>>, <<71, 195>>}

\* the index digits a tag entry may carry
IndexDigits == {<<>>, <<48>>, <<55>>, <<49, 48>>}

\* the three bytes that follow SOH in a packed number
PackedBytes == {<<0, 0, 0>>, <<0, 0, 1>>, <<7, 0, 0>>, <<1, 2, 3>>, <<255, 255, 255>>}

\* another value for the line with the l-th key
other_line(l) ==
    IF l \in TextLines THEN soh_to_bytes(LineKeys[l], <<122>>)
    ELSE stx_to_bytes(LineKeys[l], U32(0, 512))

swap(seq, a, b) ==
    [j \in 1..Len(seq) |-> IF j = a THEN seq[b] ELSE IF j = b THEN seq[a] ELSE seq[j]]

insert_at(seq, pos, x) == SubSeq(seq, 1, pos - 1) \o <<x>> \o SubSeq(seq, pos, Len(seq))

remove_at(seq, pos) == SubSeq(seq, 1, pos - 1) \o SubSeq(seq, pos + 1, Len(seq))

\* the numeric line with the l-th key in the parser's packed form: SOH and three bytes
packed_line(l, b) == <<SOX>> \o LineKeys[l] \o <<NUL, SOH>> \o b

\* the value stx_single_line_parser gives those three bytes
packed_value(b) == from_le_bytes(<<0, b[1], b[2], b[3]>>)

\* the numeric line with the l-th key in the form `SOH NUL` and three bytes
soh_nul_line(l, b) == <<SOX>> \o LineKeys[l] \o <<NUL, SOH, NUL>> \o b

\* those three bytes read little-endian and zero-extended
zero_extended(b) == from_le_bytes(<<b[1], b[2], b[3], 0>>)

---------------------------------------------------------------------------
(* The state machine. *)

\* bytes that are no sequence of tag entries: a stray letter, a stray NUL, an
\* entry `SOH "0" NUL "x"` without its closing NUL
TagJunk == {<<99>>, <<NUL>>, <<SOH, 48, NUL, 120>>}

\* the number of bytes of assemble(st) in front of the BACKSPACE that closes
\* the tags block of the r-th record
tags_close_offset(st, r) == Len(assemble(SubSeq(st, 1, r))) - 4

\* the number of bytes in front of the first tag entry of the r-th record
tags_open_offset(st, r) ==
    Len(assemble([SubSeq(st, 1, r) EXCEPT ![r].tags = <<>>])) - 4

insert_bytes(bytes, at, x) == SubSeq(bytes, 1, at) \o x \o SubSeq(bytes, at + 1, Len(bytes))

\* bytes behind the end of a stream: a BACKSPACE, a NUL, a letter and a
\* BACKSPACE, the start of a record block
TrailingBytes == {<<BS>>, <<NUL>>, <<99, BS>>, <<NUL, 48, NUL, SOX>>}

\* the texts handed to calculate_app_id and Shortcut::new: "", "a", "b", "aa", ...
Texts == UNION { [1..n -> {97, 98}] : n \in 0..MaxText }

\* the order values and the path texts handed to Shortcut::new
Orders == {0, 12}

\* start_dir, icon, shortcut_path and launch_options: all empty, two of them
\* "/", and "1", "2", "3", "4"
PathArgs ==
    { <<<<>>, <<>>, <<>>, <<>>>>,
      <<<<47>>, <<>>, <<47>>, <<>>>>,
      <<<<49>>, <<50>>, <<51>>, <<52>>>> }

\* no call yet
NoCall == [f |-> "none", args |-> <<>>, result |-> <<>>, again |-> <<>>]

OpRec(name, r, l) == [name |-> name, r |-> r, l |-> l]

Init ==
    /\ shortcuts \in ShortcutLists
    /\ stream = <<>>
    /\ shortcuts_bytes = <<>>
    /\ original = <<>>
    /\ expected = NotRun
    /\ parsed = NotRun
    /\ op = OpRec("init", 0, 0)
    /\ call = NoCall

\* shortcuts_to_bytes(&shortcuts)
Encode ==
    /\ op.name = "init"
    /\ shortcuts_bytes' = shortcuts_to_bytes(shortcuts)
    /\ op' = OpRec("written", 0, 0)
    /\ UNCHANGED <<call, shortcuts, stream, original, expected, parsed>>

\* shortcuts_to_bytes on a list of ManyShortcuts copies of one record
EncodeMany ==
    /\ op.name = "init"
    /\ Len(shortcuts) = 1
    /\ shortcuts' = [index \in 1..ManyShortcuts |-> shortcuts[1]]
    /\ shortcuts_bytes' = shortcuts_to_bytes(shortcuts')
    /\ op' = OpRec("written", 0, 0)
    /\ UNCHANGED <<call, stream, original, expected, parsed>>

\* a stream built by hand in the layout get_shortcut reads
HandBuild ==
    /\ op.name = "init"
    /\ \E packed \in BOOLEAN :
        /\ stream' = build_stream(shortcuts, packed)
        /\ shortcuts_bytes' = assemble(stream')
        /\ op' = OpRec(IF packed THEN "built" ELSE "built_long", 0, 0)
    /\ UNCHANGED <<call, shortcuts, original, expected, parsed>>

\* parse_shortcuts(shortcuts_bytes)
Decode ==
    /\ op.name # "init"
    /\ parsed.k = "NotRun"
    /\ parsed' = parse_shortcuts(shortcuts_bytes)
    /\ UNCHANGED <<call, shortcuts, stream, shortcuts_bytes, original, expected, op>>

\* shortcuts_to_bytes(&parse_shortcuts(b)?) on a hand-built stream b
Reencode ==
    /\ op.name = "built"
    /\ parsed.k = "Ok"
    /\ \E v \in OverrideValues :
        shortcuts_bytes' =
            shortcuts_to_bytes([r \in 1..Len(parsed.val) |-> with_override(parsed.val[r], v)])
    /\ original' = shortcuts_bytes
    /\ expected' = parsed
    /\ parsed' = NotRun
    /\ op' = OpRec("reencoded", 0, 0)
    /\ UNCHANGED <<call, shortcuts, stream>>

\* a decoded buffer cut before its final two bytes
Truncate ==
    /\ op.name \in {"written", "built"}
    /\ parsed.k # "NotRun"
    /\ \E n \in 0..(Len(shortcuts_bytes) - 2) :
        shortcuts_bytes' = SubSeq(shortcuts_bytes, 1, n)
    /\ original' = shortcuts_bytes
    /\ expected' = parsed
    /\ parsed' = NotRun
    /\ op' = OpRec("truncated", 0, 0)
    /\ UNCHANGED <<call, shortcuts, stream>>

\* the decoded hand-built stream becomes st, to be decoded again
Edit(st, name, r, l) ==
    /\ op.name = "built"
    /\ parsed.k # "NotRun"
    /\ stream' = st
    /\ shortcuts_bytes' = assemble(st)
    /\ original' = shortcuts_bytes
    /\ expected' = parsed
    /\ parsed' = NotRun
    /\ op' = OpRec(name, r, l)
    /\ UNCHANGED <<call, shortcuts>>

\* two field lines of a record change places
Permute ==
    \E r \in 1..Len(stream) : \E a, b \in 1..Len(LineKeys) :
        /\ a < b
        /\ Edit([stream EXCEPT ![r].lines = swap(@, a, b)], "permuted", r, a)

\* a key occurs twice, the record's own line last
Duplicate ==
    \E r \in 1..Len(stream) : \E l \in 1..Len(LineKeys) :
        Edit([stream EXCEPT ![r].lines = insert_at(@, l, other_line(l))], "duplicated", r, l)

\* a line with an unknown key among the field lines
Inject ==
    \E r \in 1..Len(stream) : \E pos \in 1..(Len(LineKeys) + 1) : \E line \in UnknownLines :
        Edit([stream EXCEPT ![r].lines = insert_at(@, pos, line)], "injected", r, pos)

\* a field line is left out
Remove ==
    \E r \in 1..Len(stream) : \E l \in 1..Len(LineKeys) :
        Edit([stream EXCEPT ![r].lines = remove_at(@, l)], "removed", r, l)

\* an order marker, a text value or a tag text that is malformed
Corrupt ==
    \E r \in 1..Len(stream) :
        \/ \E o \in BadOrders :
              Edit([stream EXCEPT ![r].order = o], "corrupted", r, 0)
        \/ \E l \in TextLines : \E t \in BadTexts :
              Edit([stream EXCEPT ![r].lines[l] = soh_to_bytes(LineKeys[l], t)], "corrupted", r, l)
        \/ \E n \in 1..Len(stream[r].tags) : \E t \in BadTexts :
              Edit([stream EXCEPT ![r].tags[n].text = t], "corrupted", r, 100 + n)

\* the tag entries of a record carry other index digits
Renumber ==
    \E r \in 1..Len(stream) :
        \E idx \in [1..Len(stream[r].tags) -> IndexDigits] :
            /\ Len(stream[r].tags) > 0
            /\ Edit([stream EXCEPT ![r].tags = [n \in 1..Len(@) |-> [@[n] EXCEPT !.index = idx[n]]]],
                    "renumbered", r, 0)

\* a numeric line in the parser's packed form, beside the same stream with
\* the value in long form
ShortForm4 ==
    \E r \in 1..Len(stream) : \E l \in NumericLines : \E b \in PackedBytes :
        /\ op.name = "built"
        /\ parsed.k # "NotRun"
        /\ stream' = [stream EXCEPT ![r].lines[l] = packed_line(l, b)]
        /\ shortcuts_bytes' = assemble(stream')
        /\ original' = assemble([stream EXCEPT ![r].lines[l] = stx_to_bytes(LineKeys[l], packed_value(b))])
        /\ expected' = parse_shortcuts(original')
        /\ parsed' = NotRun
        /\ op' = OpRec("short4", r, l)
        /\ UNCHANGED <<call, shortcuts>>

\* a numeric line as `SOH NUL` and three bytes, beside the same stream with
\* the zero-extended value in long form
ShortForm5 ==
    \E r \in 1..Len(stream) : \E l \in NumericLines : \E b \in PackedBytes :
        /\ op.name = "built"
        /\ parsed.k # "NotRun"
        /\ stream' = [stream EXCEPT ![r].lines[l] = soh_nul_line(l, b)]
        /\ shortcuts_bytes' = assemble(stream')
        /\ original' = assemble([stream EXCEPT ![r].lines[l] = stx_to_bytes(LineKeys[l], zero_extended(b))])
        /\ expected' = parse_shortcuts(original')
        /\ parsed' = NotRun
        /\ op' = OpRec("short5", r, l)
        /\ UNCHANGED <<call, shortcuts>>

\* bytes that are no tag entry, in front of the entries of a record's tags
\* block or behind them
Malform ==
    \E r \in 1..Len(stream) : \E junk \in TagJunk : \E front \in BOOLEAN :
        /\ op.name = "built"
        /\ parsed.k # "NotRun"
        /\ shortcuts_bytes' =
              insert_bytes(shortcuts_bytes,
                           IF front THEN tags_open_offset(stream, r)
                           ELSE tags_close_offset(stream, r),
                           junk)
        /\ original' = shortcuts_bytes
        /\ expected' = parsed
        /\ parsed' = NotRun
        /\ op' = OpRec(IF front THEN "malformed_front" ELSE "malformed_back", r, 0)
        /\ UNCHANGED <<call, shortcuts, stream>>

\* a decoded buffer without its last byte, the second of the two closing BACKSPACEs
CutFinal ==
    /\ op.name \in {"written", "built"}
    /\ parsed.k # "NotRun"
    /\ shortcuts_bytes' = SubSeq(shortcuts_bytes, 1, Len(shortcuts_bytes) - 1)
    /\ original' = shortcuts_bytes
    /\ expected' = parsed
    /\ parsed' = NotRun
    /\ op' = OpRec("cut_final", 0, 0)
    /\ UNCHANGED <<call, shortcuts, stream>>

\* a decoded buffer with more bytes behind it
AppendTrailing ==
    /\ op.name \in {"written", "built", "cut_final"}
    /\ parsed.k # "NotRun"
    /\ \E x \in TrailingBytes : shortcuts_bytes' = shortcuts_bytes \o x
    /\ original' = shortcuts_bytes
    /\ expected' = parsed
    /\ parsed' = NotRun
    /\ op' = OpRec("appended", 0, 0)
    /\ UNCHANGED <<call, shortcuts, stream>>

\* calculate_app_id(exe, app_name)
CalculateAppId ==
    /\ call.f = "none"
    /\ \E exe \in Texts : \E app_name \in Texts :
        call' = [f |-> "calculate_app_id", args |-> <<exe, app_name>>,
                 result |-> calculate_app_id(exe, app_name), again |-> <<>>]
    /\ UNCHANGED <<shortcuts, stream, shortcuts_bytes, original, expected, parsed, op>>

\* calculate_app_id once more, with the same arguments
CalculateAppIdAgain ==
    /\ call.f = "calculate_app_id"
    /\ call' = [call EXCEPT !.f = "calculate_app_id_again",
                            !.again = calculate_app_id(call.args[1], call.args[2])]
    /\ UNCHANGED <<shortcuts, stream, shortcuts_bytes, original, expected, parsed, op>>

\* Shortcut::new(order, app_name, exe, start_dir, icon, shortcut_path, launch_options)
New ==
    /\ call.f = "none"
    /\ \E order \in Orders : \E app_name \in Texts : \E exe \in Texts : \E p \in PathArgs :
        call' = [f |-> "new",
                 args |-> <<order, app_name, exe, p[1], p[2], p[3], p[4]>>,
                 result |-> Shortcut_new(order, app_name, exe, p[1], p[2], p[3], p[4]),
                 again |-> <<>>]
    /\ UNCHANGED <<shortcuts, stream, shortcuts_bytes, original, expected, parsed, op>>

\* encode, hand-build, decode, re-encode
Next == Encode \/ EncodeMany \/ HandBuild \/ Decode \/ Reencode

Spec == Init /\ [][Next]_vars

\* decode a buffer, cut it, decode the prefix
NextTruncate == Encode \/ HandBuild \/ Decode \/ Truncate

SpecTruncate == Init /\ [][NextTruncate]_vars

\* decode a hand-built stream, edit its lines, decode the edited stream
NextEdit ==
    HandBuild \/ Decode \/ Permute \/ Duplicate \/ Inject \/ Remove \/ Corrupt \/ Renumber

SpecEdit == Init /\ [][NextEdit]_vars

\* decode a hand-built stream with a numeric line rewritten in a packed form
NextForms == HandBuild \/ Decode \/ ShortForm4 \/ ShortForm5

InitForms ==
    /\ shortcuts \in FormLists
    /\ stream = <<>>
    /\ shortcuts_bytes = <<>>
    /\ original = <<>>
    /\ expected = NotRun
    /\ parsed = NotRun
    /\ op = OpRec("init", 0, 0)
    /\ call = NoCall

SpecForms == InitForms /\ [][NextForms]_vars

\* decode a hand-built stream, put stray bytes into a tags block, decode again
NextTags == HandBuild \/ Decode \/ Malform

SpecTags == Init /\ [][NextTags]_vars

\* decode a buffer, drop its last byte or put bytes behind it, decode again
NextTrailing == Encode \/ HandBuild \/ Decode \/ CutFinal \/ AppendTrailing

SpecTrailing == Init /\ [][NextTrailing]_vars

\* the calls that touch no byte buffer
InitCalls ==
    /\ shortcuts = <<>>
    /\ stream = <<>>
    /\ shortcuts_bytes = <<>>
    /\ original = <<>>
    /\ expected = NotRun
    /\ parsed = NotRun
    /\ op = OpRec("init", 0, 0)
    /\ call = NoCall

NextCalls == CalculateAppId \/ CalculateAppIdAgain \/ New

SpecCalls == InitCalls /\ [][NextCalls]_vars

---------------------------------------------------------------------------
(* The claims. *)

\* parse_shortcuts has run on shortcuts_bytes
decoded == parsed.k # "NotRun"

\* the fields a numeric line carries
NumericFields ==
    {"app_id", "is_hidden", "allow_desktop_config", "allow_overlay", "open_vr", "dev_kit",
     "last_play_time"}

\* the field the l-th line carries, and the value the format gives it when the line is absent
field_of_line(l) == ShortcutFields[l + 1]

default_of_line(l) ==
    IF l \in TextLines THEN <<>>
    ELSE IF l \in {8, 9, 10} THEN FALSE
    ELSE U32(0, 0)

\* C1: round trip on records. Whatever list of records is encoded with
\* shortcuts_to_bytes, parse_shortcuts of the bytes returns Ok with a list
\* equal to it field for field.
C1_RoundTripOnRecords ==
    (op.name = "written" /\ decoded) => (parsed.k = "Ok" /\ parsed.val = shortcuts)

\* C2: byte-level round trip. Re-encoding the records decoded from an accepted
\* stream, whose numbers are in long form and whose AllowDesktopConfig and
\* AllowOverlay are packed, gives back the stream byte for byte.
C2_ByteLevelRoundTrip ==
    op.name = "reencoded" => shortcuts_bytes = original

\* C3: long-form numeric decoding. A numeric line `STX key NUL` followed by the
\* four little-endian bytes of v decodes to exactly v, and for the boolean
\* keys to v != 0, also when the least significant byte of v is 0x01.
C3_LongFormDecoding ==
    (op.name = "built_long" /\ parsed.k = "Ok") =>
        \A r \in 1..Len(parsed.val) : \A f \in NumericFields :
            parsed.val[r][f] = shortcuts[r][f]

C5_FieldOrderIndependence ==
    (op.name \in {"permuted", "duplicated"} /\ decoded /\ expected.k = "Ok") =>
        (parsed.k = "Ok" /\ parsed.val = expected.val)

\* C6: unknown-key tolerance. With a well-formed text or numeric line under an
\* unrecognised key inserted among a record's field lines, the stream decodes
\* successfully to the same records as before.
C6_UnknownKeyTolerance ==
    (op.name = "injected" /\ decoded /\ expected.k = "Ok") =>
        (parsed.k = "Ok" /\ parsed.val = expected.val)

\* C7: missing-key defaults. With a field line removed the stream still decodes
\* successfully; the missing key yields 0, false or the empty text and every
\* other field is unchanged.
C7_MissingKeyDefaults ==
    (op.name = "removed" /\ decoded /\ expected.k = "Ok" /\ op.r <= Len(expected.val)) =>
        /\ parsed.k = "Ok"
        /\ parsed.val =
              [expected.val EXCEPT ![op.r][field_of_line(op.l)] = default_of_line(op.l)]

\* C8: fatal on truncation. Every prefix of a well-formed stream that ends
\* before the stream's final two BACKSPACE bytes makes parse_shortcuts return
\* Err: no panic, no Ok with an empty or shortened list.
C8_FatalOnTruncation ==
    (op.name = "truncated" /\ decoded) => parsed.k = "Err"

\* C9: decode is total. parse_shortcuts never panics, and an order marker, text
\* value or tag text that is not UTF-8, or an order marker that is no decimal
\* number, yields Err for the whole call.
C9_DecodeIsTotal ==
    /\ parsed.k # "Panic"
    /\ (op.name = "corrupted" /\ decoded) => parsed.k = "Err"

\* C10: tag order preservation. A tags block decodes to its tag texts in the
\* order they stand in, whatever index digits the entries carry, and
\* tags_to_bytes writes the tags in sequence order, the i-th under the decimal
\* index i counted from 0.
C10_TagOrderPreservation ==
    /\ (op.name = "renumbered" /\ decoded) =>
          /\ parsed.k = "Ok"
          /\ Len(parsed.val) = Len(shortcuts)
          /\ \A r \in 1..Len(shortcuts) : parsed.val[r].tags = shortcuts[r].tags
    /\ \A r \in 1..Len(shortcuts) :
          tags_to_bytes(shortcuts[r].tags) =
              Flatten([n \in 1..Len(shortcuts[r].tags) |->
                          <<SOH>> \o format_usize(n - 1) \o <<NUL>>
                              \o shortcuts[r].tags[n] \o <<NUL>>])

\* C11: identifier derivation. calculate_app_id(exe, app_name) is the CRC-32
\* of exe immediately followed by app_name with bit 31 set: it is at least
\* 0x80000000, its low 31 bits are the checksum's, a second call with the same
\* arguments returns the same value; "" gives 0x80000000, "a" then "b" gives
\* 0x9E83486D and "b" then "a" gives 0xACA74A14.
C11_IdentifierDerivation ==
    call.f \in {"calculate_app_id", "calculate_app_id_again"} =>
        /\ call.result.hi >= 32768
        /\ call.result.lo = crc32(call.args[1] \o call.args[2]).lo
        /\ call.result.hi % 32768 = crc32(call.args[1] \o call.args[2]).hi % 32768
        /\ call.f = "calculate_app_id_again" => call.again = call.result
        /\ call.args = <<<<>>, <<>>>> => call.result = U32(32768, 0)
        /\ call.args = <<<<97>>, <<98>>>> => call.result = U32(40579, 18541)
        /\ call.args = <<<<98>>, <<97>>>> => call.result = U32(44199, 18964)

\* the app id of "b" followed by "a", whose checksum 0x2CA74A14 has bit 31
\* clear, computed twice
C11_Witness ==
    /\ call.f = "calculate_app_id_again"
    /\ call.args = <<<<98>>, <<97>>>>
    /\ call.result = U32(44199, 18964)
    /\ call.again = call.result

\* C12: constructor defaults. Shortcut::new returns a record that holds its
\* seven arguments unchanged, app_id = calculate_app_id(exe, app_name),
\* is_hidden false, allow_desktop_config and allow_overlay true, open_vr,
\* dev_kit, dev_kit_overrite_app_id and last_play_time 0, an empty
\* dev_kit_game_id and exactly the two default tags.
C12_ConstructorDefaults ==
    call.f = "new" =>
        /\ DOMAIN call.result =
              {"order", "app_id", "app_name", "exe", "start_dir", "icon", "shortcut_path",
               "launch_options", "is_hidden", "allow_desktop_config", "allow_overlay",
               "open_vr", "dev_kit", "dev_kit_game_id", "dev_kit_overrite_app_id",
               "last_play_time", "tags"}
        /\ call.result.order = call.args[1]
        /\ call.result.app_name = call.args[2]
        /\ call.result.exe = call.args[3]
        /\ call.result.start_dir = call.args[4]
        /\ call.result.icon = call.args[5]
        /\ call.result.shortcut_path = call.args[6]
        /\ call.result.launch_options = call.args[7]
        /\ call.result.app_id = calculate_app_id(call.args[3], call.args[2])
        /\ call.result.is_hidden = FALSE
        /\ call.result.allow_desktop_config = TRUE
        /\ call.result.allow_overlay = TRUE
        /\ call.result.open_vr = U32(0, 0)
        /\ call.result.dev_kit = U32(0, 0)
        /\ call.result.dev_kit_overrite_app_id = U32(0, 0)
        /\ call.result.last_play_time = U32(0, 0)
        /\ call.result.dev_kit_game_id = <<>>
        /\ Len(call.result.tags) = 2
        /\ call.result.tags = DefaultTags

\* Shortcut::new(12, "a", "b", "/", "", "/", ""): the app id is that of "ba"
C12_Witness ==
    /\ call.f = "new"
    /\ call.args = <<12, <<97>>, <<98>>, <<47>>, <<>>, <<47>>, <<>>>>
    /\ call.result.app_id = U32(44199, 18964)
    /\ call.result.order = 12
    /\ call.result.tags = DefaultTags

\* C13: no silent partial tag list. When the bytes between `NUL tags NUL` and
\* the BACKSPACE that closes the tags block are not entirely a sequence of
\* entries `SOH index NUL text NUL`, the whole decode fails; it does not
\* return the record with the tags parsed before the malformed bytes.
C13_NoSilentPartialTagList ==
    (op.name \in {"malformed_front", "malformed_back"} /\ decoded) => parsed.k = "Err"

\* the number of bytes shortcuts_to_bytes writes in front of the i-th record of list
record_offset(list, i) == Len(shortcuts_to_bytes(SubSeq(list, 1, i - 1))) - 2

\* C14: order is rewritten by position. The order digits shortcuts_to_bytes
\* writes for the i-th record (from 0) are the decimal digits of i, whatever
\* the record's order field holds, and the output is the same bytes whatever
\* the order fields are.
C14_OrderRewrittenByPosition ==
    op.name = "written" =>
        /\ \A i \in 1..Len(shortcuts) :
              SubSeq(shortcuts_bytes, record_offset(shortcuts, i) + 1,
                     record_offset(shortcuts, i) + 2 + Len(format_usize(i - 1)))
                  = <<NUL>> \o format_usize(i - 1) \o <<NUL>>
        /\ \A o \in {0, 5, 12} :
              shortcuts_bytes =
                  shortcuts_to_bytes([i \in 1..Len(shortcuts) |-> [shortcuts[i] EXCEPT !.order = o]])

\* a long list written, its records with order 5: the eleventh carries the
\* order marker NUL "10" NUL
C14_Witness ==
    /\ op.name = "written"
    /\ Len(shortcuts) > 10
    /\ shortcuts[11].order = 5
    /\ SubSeq(shortcuts_bytes, record_offset(shortcuts, 11) + 1, record_offset(shortcuts, 11) + 4)
          = <<NUL, 49, 48, NUL>>

\* C15: trailing bytes are ignored. When parse_shortcuts(B) is Ok(L), then
\* parse_shortcuts of B followed by any bytes is Ok(L) too: decoding stops at
\* the first BACKSPACE behind the last record and does not want the input
\* consumed, so B without the second closing BACKSPACE decodes to L as well and
\* the header followed by one BACKSPACE decodes to the empty list.
C15_TrailingBytesIgnored ==
    /\ (op.name \in {"appended", "cut_final"} /\ decoded /\ expected.k = "Ok") =>
          parsed = expected
    /\ (decoded /\ shortcuts_bytes = <<NUL>> \o K_shortcuts \o <<NUL, BS>>) =>
          (parsed.k = "Ok" /\ parsed.val = <<>>)

\* a stream of two records that ends at its first closing BACKSPACE, with a
\* letter and a BACKSPACE behind it, decoded to the two records
C15_Witness ==
    /\ op.name = "appended"
    /\ parsed.k = "Ok"
    /\ Len(parsed.val) = 2
    /\ parsed = expected
    /\ shortcuts_bytes = original \o <<99, BS>>
    /\ original = SubSeq(assemble(stream), 1, Len(original))
    /\ Len(original) = Len(assemble(stream)) - 1

====
